---- MODULE Spec2Model ----
(***************************************************************************)
(* uni-gl: one drawing API over two backends.                              *)
(*   src/src/webgl.rs         browser backend (WebGL / WebGL2 via web_sys) *)
(*   src/src/webgl_native.rs  native backend (OpenGL via the gl crate)     *)
(*   src/src/lib.rs           facade, handle wrapper types                 *)
(* One backend is compiled in (lib.rs:10-16); the model draws it in Init.  *)
(* Every public operation of GLContext is one action.  The answers of the  *)
(* browser / driver (objects or null, status flags, error codes, info      *)
(* logs) are inputs drawn with \E.  `last` records the operation that has  *)
(* just run: its arguments, the backend's answers, the calls it made to    *)
(* the underlying API, how it ended and what it returned.                  *)
(***************************************************************************)
EXTENDS Integers, Sequences, FiniteSets, TLC

\* ------------------------------------------------------------------ bounds
\* creations (handles issued one at a time) per session
MaxCreate == 2
\* long create/delete loops per session (LongSpec only)
MaxLoops == 3
\* length of the color-target list given to draw_buffer
MaxTargets == 2

\* ------------------------------------------------------- program constants
\* Reference = i32 (webgl.rs:12), seq: RefCell<i32> (webgl.rs:40)
I32Max == 2147483647
I32Min == (-I32Max) - 1
\* web_sys::WebGl2RenderingContext::DEPTH_COMPONENT16 (webgl.rs:676)
DEPTH_COMPONENT16 == 33189

VARIABLES
    backend,    \* "browser" | "native": which webgl module is compiled in
    status,     \* "unbuilt" | "running" | "halted" (panic, uncaught throw, crash)
    gl,         \* WebContext variant: "Gl2" | "Gl"; "none" before construction
    is_webgl2,  \* the capability flag
    dict,       \* the Resource Table: handle -> JsValue
    seq,        \* the next-handle counter
    profile,    \* build profile, fixed once it first matters:
                \*   "debug" (overflow checks on) | "release" (wrapping); "unknown" until then
    last,       \* the operation that has just run
    issued,     \* history: the handles returned by creation operations, in order
    live,       \* history: handles returned and not yet given to a delete that returned
    nloops,     \* long loops run so far
    twin        \* the clone of the context: whether one was made, its table and counter,
                \*   and (history) the handles it has issued itself

vars == <<backend, status, gl, is_webgl2, dict, seq, profile, last, issued, live, nloops,
         twin>>

\* ------------------------------------------------------------- vocabulary
\* What a JsValue stored in the table can be: a live object of one of the
\* seven kinds, `undefined` (an Option::None converted with .into()), or the
\* number 0.0 that create_vertex_array stores on WebGL 1.
Kinds == {"buffer", "shader", "program", "texture", "vertex_array", "framebuffer", "uniform"}
JsValues == Kinds \cup {"undefined", "number"}

\* the handle values a caller can pass: issued, deleted or never issued
Handles == 1..MaxCreate

\* A call made to the underlying API: function, kind of the object passed
\* ("" when none), a symbolic argument, two numeric arguments, a list argument.
CallList(fn, obj, s, x, y, list) ==
    [fn |-> fn, obj |-> obj, s |-> s, x |-> x, y |-> y, list |-> list]

Call(fn, obj, s, x, y) == CallList(fn, obj, s, x, y, <<>>)

\* The record of one operation: its name, its handle argument (0: none), its
\* symbolic arguments and answers (arg, arg2, resp), a flag, number and list
\* argument, the calls made to the underlying API, how it ended ("return",
\* "panic", "throw", "crash"), the value returned (<<>>: none) and the
\* words of the message it halted with (<<>>: none).
Op(op, h, arg, arg2, flag, resp, calls, outcome, ret, msg) ==
    [op |-> op, h |-> h, arg |-> arg, arg2 |-> arg2, flag |-> flag, resp |-> resp,
     calls |-> calls, outcome |-> outcome, ret |-> ret,
     msg |-> IF msg = "" THEN <<>> ELSE <<msg>>,
     n |-> 0, list |-> <<>>]

NoOp == Op("", 0, "", "", FALSE, "", <<>>, "return", <<>>, "")

StatusAfter(outcome) == IF outcome = "return" THEN "running" ELSE "halted"

Range(s) == {s[i] : i \in DOMAIN s}

\* ----------------------------------------------------- the Resource Table
\* HashMap::insert (webgl.rs:69): a present key is overwritten
Insert(d, id, val) == [k \in DOMAIN d \cup {id} |-> IF k = id THEN val ELSE d[k]]

\* fn get (webgl.rs:72-74): Option<JsValue>, as a sequence of length 0 or 1
get(d, id) == IF id \in DOMAIN d THEN <<d[id]>> ELSE <<>>

\* a table that forgets nothing: what remove would be if deleting a resource
\* left its entry behind
keep(d, id) == d

\* fn remove (webgl.rs:75-77)
remove(d, id) == [k \in DOMAIN d \ {id} |-> d[k]]

\* id + 1 on an i32 (webgl.rs:68) in a build without overflow checks
WrapInc(id) == IF id = I32Max THEN I32Min ELSE id + 1

\* id + n on an i32, n in 0..I32Max, wrapping
WrapAdd(id, n) == IF id > I32Max - n THEN I32Min + (id - (I32Max - n) - 1) ELSE id + n

\* The build profiles the increment at `id` can run under: it matters only
\* when id + 1 overflows, and stays what it was once it has mattered.
Profiles(overflows) ==
    IF overflows /\ profile = "unknown" THEN {"debug", "release"} ELSE {profile}

\* fn add (webgl.rs:66-71) as run by operation `rec.op`: reads the counter,
\* stores counter + 1 (a panic under overflow checks, before the insert),
\* inserts, returns the id.
add(val, rec) ==
    \E p \in Profiles(seq = I32Max) :
        /\ profile' = p
        /\ IF seq = I32Max /\ p = "debug"
           THEN /\ last' = [rec EXCEPT !.outcome = "panic",
                                       !.msg = <<"attempt to add with overflow">>]
                /\ status' = "halted"
                /\ UNCHANGED <<dict, seq, issued, live>>
           ELSE /\ seq' = WrapInc(seq)
                /\ dict' = Insert(dict, seq, val)
                /\ last' = [rec EXCEPT !.ret = <<seq>>]
                /\ issued' = Append(issued, seq)
                /\ live' = live \cup {seq}
                /\ status' = "running"

\* an operation that ends by emptying the table
FinishAndForget(rec) ==
    /\ last' = rec
    /\ status' = StatusAfter(rec.outcome)
    /\ dict' = << >>
    /\ UNCHANGED <<seq, profile, issued, live>>

\* an operation that ends without touching the table
Finish(rec) ==
    /\ last' = rec
    /\ status' = StatusAfter(rec.outcome)
    /\ UNCHANGED <<dict, seq, profile, issued, live>>

Running(b) == status = "running" /\ backend = b

\* ------------------------------------------------------------ construction
\* What canvas.getContext(name, attribs) can answer (webgl.rs:88-92, 103-107):
\*   "throws"  Err(JsValue)
\*   "null"    Ok(None): the revision is not available on this canvas
\*   "context" Ok(Some(obj)), obj a rendering context of the requested revision
\*   "other"   Ok(Some(obj)), obj not an instance of the requested class
ContextAnswers == {"throws", "null", "context", "other"}

\* GLContext::new on the browser (webgl.rs:79-119), display_gl_info included
\* (webgl.rs:134-148): get_parameter(..).unwrap().as_string().unwrap() needs
\* string answers.
BrowserNew(webgl2, webgl, strings) ==
    LET banner == <<Call("getExtension", "", "WEBGL_depth_texture", 0, 0),
                    Call("getParameter", "", "VERSION", 0, 0),
                    Call("getParameter", "", "SHADING_LANGUAGE_VERSION", 0, 0),
                    Call("getParameter", "", "VENDOR", 0, 0)>>
        rec(variant, calls, outcome, msg) ==
            [gl |-> variant, flag |-> variant = "Gl2",
             last |-> Op("new", 0, webgl2, webgl, strings, "", calls, outcome, <<>>, msg)]
        built(variant) ==
            IF strings THEN rec(variant, banner, "return", "")
            ELSE rec(variant, SubSeq(banner, 1, 2), "panic",
                     "called Option::unwrap() on a None value")
    IN  CASE webgl2 = "throws" -> rec("none", <<>>, "panic", "called Result::unwrap() on an Err value")
          [] webgl2 = "null" -> rec("none", <<>>, "panic", "called Option::unwrap() on a None value")
          [] webgl2 = "context" -> built("Gl2")
          [] webgl2 = "other" ->
                CASE webgl = "throws" -> rec("none", <<>>, "panic", "called Result::unwrap() on an Err value")
                  [] webgl = "null" -> rec("none", <<>>, "panic", "called Option::unwrap() on a None value")
                  [] webgl = "context" -> built("Gl")
                  [] webgl = "other" -> rec("none", <<>>, "panic", "No webgl context found")

\* a construction that leaves the flag unset whatever revision it finds
new_without_flag ==
    /\ status = "unbuilt" /\ backend = "browser"
    /\ \E webgl2 \in ContextAnswers, webgl \in ContextAnswers, strings \in BOOLEAN :
          LET r == BrowserNew(webgl2, webgl, strings)
          IN  /\ last' = r.last
              /\ status' = StatusAfter(r.last.outcome)
              /\ gl' = IF r.last.outcome = "return" THEN r.gl ELSE "none"
              /\ is_webgl2' = FALSE
    /\ UNCHANGED <<backend, twin, dict, seq, profile, issued, live, nloops>>

new ==
    /\ status = "unbuilt" /\ backend = "browser"
    /\ \E webgl2 \in ContextAnswers, webgl \in ContextAnswers, strings \in BOOLEAN :
          LET r == BrowserNew(webgl2, webgl, strings)
          IN  /\ last' = r.last
              /\ status' = StatusAfter(r.last.outcome)
              /\ gl' = IF r.last.outcome = "return" THEN r.gl ELSE "none"
              /\ is_webgl2' = (r.last.outcome = "return" /\ r.flag)
    /\ UNCHANGED <<backend, twin, dict, seq, profile, issued, live, nloops>>

\* GLContext::new on the native backend (webgl_native.rs:84-96)
native_new ==
    /\ status = "unbuilt" /\ backend = "native"
    /\ last' = Op("new", 0, "", "", FALSE, "",
                  <<Call("GetString", "", "VERSION", 0, 0),
                    Call("GetString", "", "SHADING_LANGUAGE_VERSION", 0, 0),
                    Call("GetString", "", "VENDOR", 0, 0)>>, "return", <<>>, "")
    /\ status' = "running"
    /\ is_webgl2' = TRUE
    /\ UNCHANGED <<backend, twin, gl, dict, seq, profile, issued, live, nloops>>

\* ---------------------------------------------------------------- creation
\* What a create* call of the browser API can answer: an object, or null
\* (a lost context).
CreateAnswers == {"object", "null"}

CanCreate == Running("browser") /\ Len(issued) < MaxCreate

\* create_buffer / create_program / create_framebuffer
\* (webgl.rs:192-195, 292-295, 470-473): gl.createX().unwrap(), then add
create_unwrap(op, fn, kind) ==
    /\ CanCreate
    /\ \E answer \in CreateAnswers :
          LET rec == Op(op, 0, "", "", FALSE, answer, <<Call(fn, "", "", 0, 0)>>,
                        "return", <<>>, "")
          IN  IF answer = "null"
              THEN Finish([rec EXCEPT !.outcome = "panic",
                                      !.msg = <<"called Option::unwrap() on a None value">>])
              ELSE add(kind, rec)
    /\ UNCHANGED <<backend, twin, gl, is_webgl2, nloops>>

create_buffer == create_unwrap("create_buffer", "createBuffer", "buffer")

create_program == create_unwrap("create_program", "createProgram", "program")

create_framebuffer == create_unwrap("create_framebuffer", "createFramebuffer", "framebuffer")

\* ------------------------------------------------------------ error codes
\* the codes gl.getError() can answer on the browser
WebGLErrors == {"NO_ERROR", "INVALID_ENUM", "INVALID_OPERATION", "INVALID_VALUE",
                "OUT_OF_MEMORY", "INVALID_FRAMEBUFFER_OPERATION", "CONTEXT_LOST_WEBGL",
                "OTHER"}

\* the symbolic reason of fn check_error (webgl.rs:263-272)
WebReason(code) ==
    CASE code = "INVALID_ENUM" -> "invalid enum"
      [] code = "INVALID_OPERATION" -> "invalid operation"
      [] code = "INVALID_VALUE" -> "invalid value"
      [] code = "OUT_OF_MEMORY" -> "out of memory"
      [] code = "INVALID_FRAMEBUFFER_OPERATION" -> "invalid framebuffer operation"
      [] code = "CONTEXT_LOST_WEBGL" -> "context lost webgl"
      [] OTHER -> "unknown error"

\* fn check_error (webgl.rs:257-275): the calls it makes; it prints
\* "ERROR {msg} {reason}" and returns
check_error(tag, code) ==
    <<Call("getError", "", code, 0, 0)>> \o
    (IF code /= "NO_ERROR"
     THEN <<CallList("console.log", "", tag, 0, 0, <<"ERROR", tag, WebReason(code)>>)>>
     ELSE <<>>)

\* create_shader (webgl.rs:277-284): no object -> check_error, unreachable!()
create_shader ==
    /\ CanCreate
    /\ \E answer \in CreateAnswers, code \in WebGLErrors :
          LET rec == Op("create_shader", 0, "", "", FALSE, answer,
                        <<Call("createShader", "", "", 0, 0)>>, "return", <<>>, "")
          IN  IF answer = "null"
              THEN Finish([rec EXCEPT !.calls = @ \o check_error("create_shader", code),
                                      !.arg = code,
                                      !.outcome = "panic",
                                      !.msg = <<"internal error: entered unreachable code">>])
              ELSE /\ code = "NO_ERROR"
                   /\ add("shader", rec)
    /\ UNCHANGED <<backend, twin, gl, is_webgl2, nloops>>

\* create_texture (webgl.rs:405-408): the Option is stored as it is
TextureValue(answer) == IF answer = "null" THEN "undefined" ELSE "texture"

create_texture ==
    /\ CanCreate
    /\ \E answer \in CreateAnswers :
          add(TextureValue(answer),
              Op("create_texture", 0, "", "", FALSE, answer,
                 <<Call("createTexture", "", "", 0, 0)>>, "return", <<>>, ""))
    /\ UNCHANGED <<backend, twin, gl, is_webgl2, nloops>>

\* create_vertex_array (webgl.rs:212-218)
create_vertex_array ==
    /\ CanCreate
    /\ IF gl = "Gl2"
       THEN \E answer \in CreateAnswers :
              LET rec == Op("create_vertex_array", 0, "", "", FALSE, answer,
                            <<Call("createVertexArray", "", "", 0, 0)>>, "return", <<>>, "")
              IN  IF answer = "null"
                  THEN Finish([rec EXCEPT !.outcome = "panic",
                                          !.msg = <<"called Option::unwrap() on a None value">>])
                  ELSE add("vertex_array", rec)
       ELSE add("number", Op("create_vertex_array", 0, "", "", FALSE, "", <<>>,
                             "return", <<>>, ""))
    /\ UNCHANGED <<backend, twin, gl, is_webgl2, nloops>>

\* ------------------------------------------------------- handle resolution
\* The binding layer of the browser accepts `val` for a parameter of
\* interface `kind`: an object of that interface, or null / undefined where
\* the parameter is nullable; anything else is a TypeError.
Accepts(val, kind, nullable) == val = kind \/ (nullable /\ val = "undefined")

\* an operation that returns without resolving its handle or calling anything
NoDelegation(h, fn, kind, nullable) == [outcome |-> "return", msg |-> "", calls |-> <<>>]

\* self.get(id).unwrap().into() followed by one API call `fn` on the object
\* (e.g. webgl.rs:197-200): how the operation ends and the calls it made
Delegate(h, fn, kind, nullable) ==
    LET o == get(dict, h)
    IN  IF o = <<>>
        THEN [outcome |-> "panic", msg |-> "called Option::unwrap() on a None value",
              calls |-> <<>>]
        ELSE IF ~Accepts(o[1], kind, nullable)
        THEN [outcome |-> "throw", msg |-> "TypeError", calls |-> <<Call(fn, o[1], "", h, 0)>>]
        ELSE [outcome |-> "return", msg |-> "", calls |-> <<Call(fn, o[1], "", h, 0)>>]

\* ---------------------------------------------------------------- deletion
\* delete_buffer / delete_texture / delete_framebuffer
\* (webgl.rs:321-326, 410-415, 475-480): get, underlying delete, remove
delete_resolved(op, fn, kind, h) ==
    /\ Running("browser")
    /\ LET d == Delegate(h, fn, kind, TRUE)
           rec == Op(op, h, "", "", FALSE, "", d.calls, d.outcome, <<>>, d.msg)
       IN  /\ last' = rec
           /\ status' = StatusAfter(d.outcome)
           /\ dict' = IF d.outcome = "return" THEN remove(dict, h) ELSE dict
           /\ live' = IF d.outcome = "return" THEN live \ {h} ELSE live
    /\ UNCHANGED <<backend, twin, gl, is_webgl2, seq, profile, issued, nloops>>

delete_buffer(h) == delete_resolved("delete_buffer", "deleteBuffer", "buffer", h)

delete_texture(h) == delete_resolved("delete_texture", "deleteTexture", "texture", h)

delete_framebuffer(h) ==
    delete_resolved("delete_framebuffer", "deleteFramebuffer", "framebuffer", h)

\* delete_vertex_array (webgl.rs:617-627): the handle is resolved on WebGL2
\* only; the entry is removed on both
delete_vertex_array(h) ==
    /\ Running("browser")
    /\ LET d == IF gl = "Gl2" THEN Delegate(h, "deleteVertexArray", "vertex_array", TRUE)
                ELSE [outcome |-> "return", msg |-> "", calls |-> <<>>]
           rec == Op("delete_vertex_array", h, "", "", FALSE, "", d.calls, d.outcome,
                     <<>>, d.msg)
       IN  /\ last' = rec
           /\ status' = StatusAfter(d.outcome)
           /\ dict' = IF d.outcome = "return" THEN remove(dict, h) ELSE dict
           /\ live' = IF d.outcome = "return" THEN live \ {h} ELSE live
    /\ UNCHANGED <<backend, twin, gl, is_webgl2, seq, profile, issued, nloops>>

\* ------------------------------------------------------- name lookups
\* what getUniformLocation can answer: a location object, or null
\* get_uniform_location (webgl.rs:337-348)
get_uniform_location(h) ==
    /\ Running("browser")
    /\ \E answer \in CreateAnswers :
          LET d == Delegate(h, "getUniformLocation", "program", FALSE)
              rec == Op("get_uniform_location", h, "", "", FALSE,
                        IF d.outcome = "return" THEN answer ELSE "",
                        d.calls, d.outcome, <<>>, d.msg)
          IN  IF d.outcome = "return" /\ answer = "object"
              THEN Len(issued) < MaxCreate /\ add("uniform", rec)
              ELSE Finish(rec)
    /\ UNCHANGED <<backend, twin, gl, is_webgl2, nloops>>

\* the locations getAttribLocation / glGetAttribLocation can answer
Locations == {-1, 0, 1}

\* a location wrapped without looking at it: what the result would be if -1
\* were handed to the caller as a location
SomeLocation(loc) == <<loc>>

\* Option<u32> of a location: None for -1 (webgl.rs:185-189)
AttribResult(loc) == IF loc = -1 THEN <<>> ELSE <<loc>>

\* get_attrib_location (webgl.rs:181-190)
get_attrib_location(h) ==
    /\ Running("browser")
    /\ \E loc \in Locations, code \in WebGLErrors :
          LET d == Delegate(h, "getAttribLocation", "program", FALSE)
          IN  IF d.outcome = "return"
              THEN Finish([Op("get_attrib_location", h, code, "", FALSE, "answered",
                              d.calls \o check_error("get_attrib_location", code),
                              "return", AttribResult(loc), "")
                           EXCEPT !.n = loc])
              ELSE /\ loc = -1 /\ code = "NO_ERROR"
                   /\ Finish(Op("get_attrib_location", h, "", "", FALSE, "", d.calls,
                                d.outcome, <<>>, d.msg))
    /\ UNCHANGED <<backend, twin, gl, is_webgl2, nloops>>

\* ------------------------------------------------------- capability gating
\* bind_vertex_array (webgl.rs:220-226): resolved on both revisions, bound
\* on WebGL2 only
bind_vertex_array(h) ==
    /\ Running("browser")
    /\ LET d == IF gl = "Gl2" THEN Delegate(h, "bindVertexArray", "vertex_array", TRUE)
                ELSE IF get(dict, h) = <<>>
                THEN [outcome |-> "panic", msg |-> "called Option::unwrap() on a None value",
                      calls |-> <<>>]
                ELSE [outcome |-> "return", msg |-> "", calls |-> <<>>]
       IN  Finish(Op("bind_vertex_array", h, "", "", FALSE, "", d.calls, d.outcome,
                     <<>>, d.msg))
    /\ UNCHANGED <<backend, twin, gl, is_webgl2, nloops>>

\* unbind_vertex_array (webgl.rs:629-636): the handle is not looked at
unbind_vertex_array(h) ==
    /\ Running("browser")
    /\ Finish(Op("unbind_vertex_array", h, "", "", FALSE, "",
                 IF gl = "Gl2" THEN <<Call("bindVertexArray", "undefined", "", 0, 0)>>
                 ELSE <<>>,
                 "return", <<>>, ""))
    /\ UNCHANGED <<backend, twin, gl, is_webgl2, nloops>>

\* enum ColorBuffer (glenum.rs)
ColorBuffers == {"ColorAttachment0", "ColorAttachment1"}

TargetLists == UNION {[1..n -> ColorBuffers] : n \in 0..MaxTargets}

\* draw_buffer as it would be without the revision test
AlwaysDrawBuffers(variant, buffers) == <<CallList("drawBuffers", "", "", 0, 0, buffers)>>

\* the calls of draw_buffer (webgl.rs:525-536)
DrawBufferCalls(variant, buffers) ==
    IF variant = "Gl2" THEN <<CallList("drawBuffers", "", "", 0, 0, buffers)>> ELSE <<>>

draw_buffer ==
    /\ Running("browser")
    /\ \E buffers \in TargetLists :
          Finish([Op("draw_buffer", 0, "", "", FALSE, "", DrawBufferCalls(gl, buffers),
                     "return", <<>>, "") EXCEPT !.list = buffers])
    /\ UNCHANGED <<backend, twin, gl, is_webgl2, nloops>>

\* enum TextureParameter (glenum.rs)
TextureParameters == {"TextureMagFilter", "TextureMinFilter", "TextureWrapS",
                      "TextureWrapT", "TextureWrapR"}

\* the calls of tex_parameteri (webgl.rs:511-519)
TexParameteriCalls(webgl2, pname) ==
    IF ~webgl2 /\ pname = "TextureWrapR" THEN <<>>
    ELSE <<Call("texParameteri", "", pname, 0, 0)>>

\* the calls of tex_parameterfv (webgl.rs:521-523)
TexParameterfvCalls(webgl2, pname) == <<Call("texParameterf", "", pname, 0, 0)>>

tex_parameteri ==
    /\ Running("browser")
    /\ \E pname \in TextureParameters :
          Finish(Op("tex_parameteri", 0, pname, "", FALSE, "",
                    TexParameteriCalls(is_webgl2, pname), "return", <<>>, ""))
    /\ UNCHANGED <<backend, twin, gl, is_webgl2, nloops>>

tex_parameterfv ==
    /\ Running("browser")
    /\ \E pname \in TextureParameters :
          Finish(Op("tex_parameterfv", 0, pname, "", FALSE, "",
                    TexParameterfvCalls(is_webgl2, pname), "return", <<>>, ""))
    /\ UNCHANGED <<backend, twin, gl, is_webgl2, nloops>>

\* ------------------------------------------------------ compile and link
\* what getShaderParameter / getProgramParameter answer for the status flag
\* (null on a lost context), and what getShaderInfoLog / getProgramInfoLog
\* answer (Option<String>: a text, or null)
StatusAnswers == {"true", "false", "null"}
LogAnswers == {"text", "null"}

\* !compiled of a JsValue (webgl.rs:167, 306): true for a falsy value
Falsy(answer) == answer \in {"false", "null"}

\* The tail of compile_shader / link_program after the status is read
\* (webgl.rs:167-173, 306-312): on failure print, fetch the log, unwrap it,
\* print it.
ReportFailure(logfn, banner, log) ==
    IF log = "null"
    THEN [outcome |-> "panic", msg |-> "called Option::unwrap() on a None value",
          calls |-> <<Call("console.log", "", banner, 0, 0), Call(logfn, "", "", 0, 0)>>]
    ELSE [outcome |-> "return", msg |-> "",
          calls |-> <<Call("console.log", "", banner, 0, 0), Call(logfn, "", "", 0, 0),
                      Call("console.log", "", "info log", 0, 0)>>]

\* compile_shader (webgl.rs:158-174) and link_program (webgl.rs:297-313)
build_step(op, fn, statusfn, logfn, banner, kind, h) ==
    /\ Running("browser")
    /\ \E answer \in StatusAnswers, log \in LogAnswers :
          LET d == Delegate(h, fn, kind, FALSE)
              f == ReportFailure(logfn, banner, log)
          IN  IF d.outcome /= "return"
              THEN /\ answer = "true" /\ log = "text"
                   /\ Finish(Op(op, h, "", "", FALSE, "", d.calls, d.outcome, <<>>, d.msg))
              ELSE IF Falsy(answer)
              THEN Finish(Op(op, h, log, "", FALSE, answer,
                             d.calls \o <<Call(statusfn, "", "", 0, 0)>> \o f.calls,
                             f.outcome, <<>>, f.msg))
              ELSE /\ log = "text"
                   /\ Finish(Op(op, h, "", "", FALSE, answer,
                                d.calls \o <<Call(statusfn, "", "", 0, 0)>>,
                                "return", <<>>, ""))
    /\ UNCHANGED <<backend, twin, gl, is_webgl2, nloops>>

compile_shader(h) ==
    build_step("compile_shader", "compileShader", "getShaderParameter", "getShaderInfoLog",
               "Error in shader compilation :", "shader", h)

link_program(h) ==
    build_step("link_program", "linkProgram", "getProgramParameter", "getProgramInfoLog",
               "ERROR while linking program :", "program", h)

\* what getProgramParameter answers for a parameter: a number, a boolean
\* (the status flags), or null
ParameterAnswers == {"number", "boolean", "null"}

\* get_program_parameter (webgl.rs:638-642): val.as_f64().unwrap() as i32
get_program_parameter(h) ==
    /\ Running("browser")
    /\ \E answer \in ParameterAnswers :
          LET d == Delegate(h, "getProgramParameter", "program", FALSE)
          IN  IF d.outcome /= "return"
              THEN /\ answer = "number"
                   /\ Finish(Op("get_program_parameter", h, "", "", FALSE, "", d.calls,
                                d.outcome, <<>>, d.msg))
              ELSE IF answer = "number"
              THEN Finish(Op("get_program_parameter", h, "", "", FALSE, answer, d.calls,
                             "return", <<1>>, ""))
              ELSE Finish(Op("get_program_parameter", h, "", "", FALSE, answer, d.calls,
                             "panic", <<>>, "called Option::unwrap() on a None value"))
    /\ UNCHANGED <<backend, twin, gl, is_webgl2, nloops>>

\* ------------------------------------------------------- texture upload
\* enum PixelFormat and its codes (glenum.rs)
PixelFormats == {"DepthComponent", "Rgb", "Rgba"}

PixelFormatCode(format) ==
    CASE format = "DepthComponent" -> 6402
      [] format = "Rgb" -> 6407
      [] format = "Rgba" -> 6408

\* the substitution as it would be if it did not look at the payload
SubstituteAlways(format, empty) ==
    IF format = "DepthComponent" THEN DEPTH_COMPONENT16 ELSE PixelFormatCode(format)

\* the internal format tex_image2d passes (webgl.rs:654-678): the requested
\* format, but DEPTH_COMPONENT16 for DepthComponent without pixels
InternalFormat(format, empty) ==
    IF empty /\ format = "DepthComponent" THEN DEPTH_COMPONENT16
    ELSE PixelFormatCode(format)

\* tex_image2d (webgl.rs:644-694): texImage2D(..).unwrap()
tex_image2d ==
    /\ Running("browser")
    /\ \E format \in PixelFormats, empty \in BOOLEAN, answer \in {"ok", "throws"} :
          Finish(Op("tex_image2d", 0, format, "", empty, answer,
                    <<Call("texImage2D", "", format, InternalFormat(format, empty),
                           PixelFormatCode(format))>>,
                    IF answer = "ok" THEN "return" ELSE "panic", <<>>,
                    IF answer = "ok" THEN ""
                    ELSE "called Result::unwrap() on an Err value"))
    /\ UNCHANGED <<backend, twin, gl, is_webgl2, nloops>>

\* ------------------------------------------- operations that use a handle
\* The operations that resolve one handle and hand the object to one call of
\* the underlying API: operation, API function, interface of the parameter,
\* whether the parameter is nullable (the wrapper passes Some(&object)).
\*   use_program 176-179, bind_buffer 197-200, shader_source 286-290,
\*   bind_attrib_location 332-335, bind_texture 425-433,
\*   bind_texture_cube 439-447, bind_framebuffer 482-485,
\*   framebuffer_texture2d 487-505, uniform_* 538-615
HandleOps ==
    {<<"use_program", "useProgram", "program", TRUE>>,
     <<"bind_buffer", "bindBuffer", "buffer", TRUE>>,
     <<"shader_source", "shaderSource", "shader", FALSE>>,
     <<"bind_attrib_location", "bindAttribLocation", "program", FALSE>>,
     <<"bind_texture", "bindTexture", "texture", TRUE>>,
     <<"bind_texture_cube", "bindTexture", "texture", TRUE>>,
     <<"bind_framebuffer", "bindFramebuffer", "framebuffer", TRUE>>,
     <<"framebuffer_texture2d", "framebufferTexture2D", "texture", TRUE>>,
     <<"uniform_1i", "uniform1i", "uniform", TRUE>>,
     <<"uniform_1f", "uniform1f", "uniform", TRUE>>,
     <<"uniform_2f", "uniform2f", "uniform", TRUE>>,
     <<"uniform_3f", "uniform3f", "uniform", TRUE>>,
     <<"uniform_4f", "uniform4f", "uniform", TRUE>>}

use_handle(h) ==
    /\ Running("browser")
    /\ \E o \in HandleOps :
          LET d == Delegate(h, o[2], o[3], o[4])
          IN  Finish(Op(o[1], h, "", "", FALSE, "",
                        d.calls \o (IF o[1] = "shader_source" /\ d.outcome = "return"
                                    THEN <<Call("console.log", "", "shader source", 0, 0)>>
                                    ELSE <<>>),
                        d.outcome, <<>>, d.msg))
    /\ UNCHANGED <<backend, twin, gl, is_webgl2, nloops>>

\* attach_shader (webgl.rs:315-319): both handles are resolved, then one call
attach_shader(p, h) ==
    /\ Running("browser")
    /\ LET op == get(dict, p)
           oh == get(dict, h)
           rec == Op("attach_shader", h, "", "", FALSE, "", <<>>, "return", <<>>, "")
       IN  IF op = <<>> \/ oh = <<>>
           THEN Finish([rec EXCEPT !.outcome = "panic", !.n = p,
                                   !.msg = <<"called Option::unwrap() on a None value">>])
           ELSE IF ~Accepts(op[1], "program", FALSE) \/ ~Accepts(oh[1], "shader", FALSE)
           THEN Finish([rec EXCEPT !.outcome = "throw", !.n = p, !.msg = <<"TypeError">>,
                                   !.calls = <<Call("attachShader", oh[1], op[1], h, p)>>])
           ELSE Finish([rec EXCEPT !.n = p,
                                   !.calls = <<Call("attachShader", oh[1], op[1], h, p)>>])
    /\ UNCHANGED <<backend, twin, gl, is_webgl2, nloops>>

\* ----------------------------------------- operations that use no handle
\* The operations that make one call and return: operation, API function.
\*   clear_color 150, clear 154, buffer_data 202, vertex_attrib_pointer 228,
\*   enable_vertex_attrib_array 249, draw_arrays 253, unbind_buffer 328,
\*   enable 350 .. draw_elements 378, generate_mipmap 389, 397,
\*   active_texture 417, unbind_texture 435, 449, blend_* 458-468,
\*   unbind_framebuffer 507, pixel_storei 696
PlainOps ==
    {<<"clear_color", "clearColor">>, <<"clear", "clear">>,
     <<"buffer_data", "bufferData">>,
     <<"enable_vertex_attrib_array", "enableVertexAttribArray">>,
     <<"unbind_buffer", "bindBuffer">>,
     <<"enable", "enable">>, <<"disable", "disable">>, <<"cull_face", "cullFace">>,
     <<"depth_mask", "depthMask">>, <<"depth_func", "depthFunc">>,
     <<"clear_depth", "clearDepth">>, <<"generate_mipmap", "generateMipmap">>,
     <<"generate_mipmap_cube", "generateMipmap">>,
     <<"active_texture", "activeTexture">>, <<"unbind_texture", "bindTexture">>,
     <<"unbind_texture_cube", "bindTexture">>, <<"blend_equation", "blendEquation">>,
     <<"blend_func", "blendFunc">>, <<"blend_color", "blendColor">>,
     <<"unbind_framebuffer", "bindFramebuffer">>, <<"pixel_storei", "pixelStorei">>}

plain_call ==
    /\ Running("browser")
    /\ \E o \in PlainOps :
          Finish(Op(o[1], 0, "", "", FALSE, "", <<Call(o[2], "", "", 0, 0)>>,
                    "return", <<>>, ""))
    /\ UNCHANGED <<backend, twin, gl, is_webgl2, nloops>>

\* read_pixels (webgl.rs:700-722) and tex_sub_image2d (webgl.rs:724-750):
\* one call whose Result is unwrapped
UnwrapOps == {<<"read_pixels", "readPixels">>, <<"tex_sub_image2d", "texSubImage2D">>}

unwrap_call ==
    /\ Running("browser")
    /\ \E o \in UnwrapOps, answer \in {"ok", "throws"} :
          Finish(Op(o[1], 0, "", "", FALSE, answer, <<Call(o[2], "", "", 0, 0)>>,
                    IF answer = "ok" THEN "return" ELSE "panic", <<>>,
                    IF answer = "ok" THEN ""
                    ELSE "called Result::unwrap() on an Err value"))
    /\ UNCHANGED <<backend, twin, gl, is_webgl2, nloops>>

\* compressed_tex_image2d (webgl.rs:752-776): up to three get_extension
\* calls, stopping at the first extension found, then the upload
compressed_tex_image2d ==
    /\ Running("browser")
    /\ \E found \in 0..3 :
          LET names == <<"WEBGL_compressed_texture_s3tc",
                         "MOZ_WEBGL_compressed_texture_s3tc",
                         "WEBKIT_WEBGL_compressed_texture_s3tc">>
              asked == IF found = 0 THEN 3 ELSE found
          IN  Finish([Op("compressed_tex_image2d", 0, "", "", FALSE, "",
                         [i \in 1..asked |-> Call("getExtension", "", names[i], 0, 0)]
                         \o <<Call("compressedTexImage2D", "", "", 0, 0)>>,
                         "return", <<>>, "") EXCEPT !.n = found])
    /\ UNCHANGED <<backend, twin, gl, is_webgl2, nloops>>

\* ---------------------------------------------------------- native backend
\* the codes glGetError can answer
GLErrors == {"NO_ERROR", "INVALID_ENUM", "INVALID_OPERATION", "INVALID_VALUE",
             "OUT_OF_MEMORY", "STACK_OVERFLOW", "STACK_UNDERFLOW",
             "INVALID_FRAMEBUFFER_OPERATION", "OTHER"}

\* the symbolic reason of fn check_gl_error (webgl_native.rs:39-47)
NativeReason(code) ==
    CASE code = "INVALID_ENUM" -> "invalid enum"
      [] code = "INVALID_OPERATION" -> "invalid operation"
      [] code = "INVALID_VALUE" -> "invalid value"
      [] code = "OUT_OF_MEMORY" -> "out of memory"
      [] code = "STACK_OVERFLOW" -> "stack overflow"
      [] code = "STACK_UNDERFLOW" -> "stack underflow"
      [] OTHER -> "unknown error"

\* fn check_gl_error (webgl_native.rs:31-51) at the end of operation `rec`:
\* panics with "GLError: {msg} {err} ({reason})" unless the code is NO_ERROR
check_gl_error(rec, tag, code) ==
    IF code = "NO_ERROR"
    THEN [rec EXCEPT !.calls = @ \o <<Call("GetError", "", code, 0, 0)>>]
    ELSE [rec EXCEPT !.calls = @ \o <<Call("GetError", "", code, 0, 0)>>,
                     !.outcome = "panic", !.ret = <<>>,
                     !.msg = <<"GLError:", tag, code, NativeReason(code)>>]

\* The operations that make one driver call and check the error register:
\* operation, driver function, tag given to check_gl_error.
NativeOps ==
    {<<"create_buffer", "GenBuffers", "create_buffer">>,
     <<"bind_buffer", "BindBuffer", "bind_buffer">>,
     <<"buffer_data", "BufferData", "buffer_data">>,
     <<"buffer_sub_data", "BufferSubData", "buffer_sub_data">>,
     <<"unbind_buffer", "BindBuffer", "unbind_buffer">>,
     <<"create_shader", "CreateShader", "create_shader">>,
     <<"create_program", "CreateProgram", "create_program">>,
     <<"use_program", "UseProgram", "use_program">>,
     <<"attach_shader", "AttachShader", "attach_shader">>,
     <<"enable_vertex_attrib_array", "EnableVertexAttribArray", "enable_vertex_attrib_array">>,
     <<"clear_color", "ClearColor", "clear_color">>,
     <<"enable", "Enable", "enable">>,
     <<"disable", "Disable", "disable">>,
     <<"cull_face", "CullFace", "cullface">>,
     <<"depth_mask", "DepthMask", "depth_mask">>,
     <<"depth_func", "DepthFunc", "depth_func">>,
     <<"clear_depth", "ClearDepth", "clear_depth">>,
     <<"clear", "Clear", "clear">>,
     <<"read_pixels", "ReadPixels", "read_pixels">>,
     <<"pixel_storei", "PixelStorei", "pixel_storei">>,
     <<"tex_sub_image2d", "TexSubImage2D", "tex_sub_image2d">>,
     <<"compressed_tex_image2d", "CompressedTexImage2D", "compressed_tex_image2d">>,
     <<"get_program_parameter", "GetProgramiv", "get_program_parameter">>,
     <<"create_texture", "GenTextures", "create_texture">>,
     <<"generate_mipmap", "GenerateMipmap", "generate_mipmap">>,
     <<"generate_mipmap_cube", "GenerateMipmap", "generate_mipmap_cube">>,
     <<"active_texture", "ActiveTexture", "active_texture">>,
     <<"bind_texture", "BindTexture", "bind_texture">>,
     <<"unbind_texture", "BindTexture", "unbind_texture">>,
     <<"bind_texture_cube", "BindTexture", "bind_texture_cube">>,
     <<"unbind_texture_cube", "BindTexture", "unbind_texture_cube">>,
     <<"blend_equation", "BlendEquation", "blend_equation">>,
     <<"blend_func", "BlendFunc", "blend_func">>,
     <<"blend_color", "BlendColor", "blend_color">>,
     <<"uniform_1i", "Uniform1i", "uniform_1i">>,
     <<"uniform_1f", "Uniform1f", "uniform_1f">>,
     <<"uniform_2f", "Uniform2f", "uniform_2f">>,
     <<"uniform_3f", "Uniform3f", "uniform_3f">>,
     <<"uniform_4f", "Uniform4f", "uniform_4f">>,
     <<"tex_parameteri", "TexParameteri", "tex_parameteri">>,
     <<"tex_parameterfv", "TexParameterfv", "tex_parameterfv">>,
     <<"create_vertex_array", "GenVertexArrays", "create_vertex_array">>,
     <<"bind_vertex_array", "BindVertexArray", "bind_vertex_array">>,
     <<"unbind_vertex_array", "BindVertexArray", "unbind_vertex_array">>,
     <<"create_framebuffer", "GenFramebuffers", "create_framebuffer">>,
     <<"bind_framebuffer", "BindFramebuffer", "bind_framebuffer">>,
     <<"framebuffer_texture2d", "FramebufferTexture2D", "framebuffer_texture2d">>,
     <<"unbind_framebuffer", "BindFramebuffer", "unbind_framebuffer">>}

native_call ==
    /\ Running("native")
    /\ \E o \in NativeOps, code \in GLErrors :
          Finish(check_gl_error(Op(o[1], 0, "", "", FALSE, code,
                                   <<Call(o[2], "", "", 0, 0)>>, "return", <<>>, ""),
                                o[3], code))
    /\ UNCHANGED <<backend, twin, gl, is_webgl2, nloops>>

\* shader_source and bind_attrib_location (webgl_native.rs:167-173, 261-267):
\* CString::new(text).unwrap() panics on a text with an interior NUL
NativeTextOps == {<<"shader_source", "ShaderSource", "shader_source">>,
                  <<"bind_attrib_location", "BindAttribLocation", "bind_attrib_location">>}

native_text_call ==
    /\ Running("native")
    /\ \E o \in NativeTextOps, nul \in BOOLEAN, code \in GLErrors :
          IF nul
          THEN /\ code = "NO_ERROR"
               /\ Finish(Op(o[1], 0, "", "", TRUE, "", <<>>, "panic", <<>>,
                            "called Result::unwrap() on an Err value"))
          ELSE Finish(check_gl_error(Op(o[1], 0, "", "", FALSE, code,
                                        <<Call(o[2], "", "", 0, 0)>>, "return", <<>>, ""),
                                     o[3], code))
    /\ UNCHANGED <<backend, twin, gl, is_webgl2, nloops>>

\* Option<u32> of a location on the native backend (webgl_native.rs:275-278)
NativeAttribResult(loc) == IF loc = -1 THEN <<>> ELSE <<loc>>

\* Option<WebGLUniformLocation> (webgl_native.rs:292-298)
NativeUniformResult(loc) == IF loc = -1 THEN <<>> ELSE <<loc>>

\* get_attrib_location / get_uniform_location (webgl_native.rs:270-300).
\* CString::new(name).unwrap() panics on a name with an interior NUL, before
\* the driver is asked.  The driver answers -1 whenever it raises an error.
native_lookup(op, fn, loc, code, result) ==
    /\ Running("native")
    /\ code /= "NO_ERROR" => loc = -1
    /\ \E nul \in BOOLEAN :
          IF nul
          THEN /\ loc = -1 /\ code = "NO_ERROR"
               /\ Finish(Op(op, 0, "", "", TRUE, "", <<>>, "panic", <<>>,
                            "called Result::unwrap() on an Err value"))
          ELSE Finish([check_gl_error(Op(op, 0, "", "", FALSE, code,
                                         <<Call(fn, "", "", 0, 0)>>, "return", result, ""),
                                      op, code)
                       EXCEPT !.n = loc])
    /\ UNCHANGED <<backend, twin, gl, is_webgl2, nloops>>

native_get_attrib_location ==
    \E loc \in Locations, code \in GLErrors :
        native_lookup("get_attrib_location", "GetAttribLocation", loc, code,
                      NativeAttribResult(loc))

native_get_uniform_location ==
    \E loc \in Locations, code \in GLErrors :
        native_lookup("get_uniform_location", "GetUniformLocation", loc, code,
                      NativeUniformResult(loc))

\* the info-log lengths GetShaderiv / GetProgramiv(INFO_LOG_LENGTH) can
\* answer: 0 (no log), 1 (the terminating NUL alone), more (a text)
LogLengths == {0, 1, 5}

\* a failure branch that reports and goes on, as the browser backend does
ReportAndReturn(generic, len, utf8, p, ub) == [outcome |-> "return", msg |-> <<"info log">>]

\* The failure branch of compile_shader / link_program
\* (webgl_native.rs:185-201, 223-239) for an info log of `len` bytes that is
\* valid UTF-8 or not, in build profile `p`: how it ends, with what message.
\* (len as usize) - 1 underflows for len = 0: a panic under overflow checks;
\* without them set_len(usize::MAX) on an empty Vec and String::from_utf8
\* over it are undefined behaviour, whose outcomes are in `ub`.
NativeFailure(generic, len, utf8, p, ub) ==
    IF len = 0
    THEN IF p = "debug"
         THEN [outcome |-> "panic", msg |-> <<"attempt to subtract with overflow">>]
         ELSE ub
    ELSE IF utf8
    THEN [outcome |-> "panic", msg |-> <<"info log">>]
    ELSE [outcome |-> "panic", msg |-> <<generic>>]

\* what the undefined behaviour of the len = 0 branch can produce: a fault
\* on reading the dangling buffer, or from_utf8 meeting a byte sequence that
\* is not UTF-8 before it faults
UBOutcomes(generic) ==
    {[outcome |-> "crash", msg |-> <<>>],
     [outcome |-> "panic", msg |-> <<generic>>]}

\* compile_shader (webgl_native.rs:176-205), link_program (webgl_native.rs:215-242)
native_build_step(op, fn, statusfn, logfn, generic) ==
    /\ Running("native")
    /\ \E ok \in BOOLEAN, len \in LogLengths, utf8 \in BOOLEAN, code \in GLErrors :
          LET rec == Op(op, 0, "", "", ok, "",
                        <<Call(fn, "", "", 0, 0), Call(statusfn, "", "STATUS", 0, 0)>>,
                        "return", <<>>, "")
          IN  IF ok
              THEN /\ len = 0 /\ utf8
                   /\ Finish([check_gl_error(rec, op, code) EXCEPT !.resp = code])
              ELSE /\ code = "NO_ERROR"
                   /\ \E p \in Profiles(len = 0), ub \in UBOutcomes(generic) :
                         LET f == NativeFailure(generic, len, utf8, p, ub)
                         IN  /\ (len = 0 /\ p = "release") \/ ub.outcome = "crash"
                             /\ len = 0 => utf8
                             /\ last' = [rec EXCEPT
                                   !.calls = @ \o <<Call(statusfn, "", "INFO_LOG_LENGTH", len, 0)>>
                                               \o (IF len = 0 /\ p = "debug" THEN <<>>
                                                   ELSE <<Call(logfn, "", "", len, 0)>>),
                                   !.n = len, !.arg = IF utf8 THEN "utf8" ELSE "not utf8",
                                   !.outcome = f.outcome, !.msg = f.msg]
                             /\ status' = StatusAfter(f.outcome)
                             /\ profile' = p
                             /\ UNCHANGED <<dict, seq, issued, live>>
    /\ UNCHANGED <<backend, twin, gl, is_webgl2, nloops>>

native_compile_shader ==
    native_build_step("compile_shader", "CompileShader", "GetShaderiv", "GetShaderInfoLog",
                      "Compile shader fail, reason unknown")

native_link_program ==
    native_build_step("link_program", "LinkProgram", "GetProgramiv", "GetProgramInfoLog",
                      "Link program fail, reason unknown")

\* the internal format of tex_image2d on the native backend
\* (webgl_native.rs:486): always the requested format
NativeInternalFormat(format, empty) == PixelFormatCode(format)

\* tex_image2d (webgl_native.rs:464-497)
native_tex_image2d ==
    /\ Running("native")
    /\ \E format \in PixelFormats, empty \in BOOLEAN, code \in GLErrors :
          Finish(check_gl_error(
                    Op("tex_image2d", 0, format, "", empty, code,
                       <<Call("TexImage2D", "", format, NativeInternalFormat(format, empty),
                              PixelFormatCode(format))>>, "return", <<>>, ""),
                    "tex_image2d", code))
    /\ UNCHANGED <<backend, twin, gl, is_webgl2, nloops>>

\* draw_buffer (webgl_native.rs:853-860): one glDrawBuffer per target
native_draw_buffer ==
    /\ Running("native")
    /\ \E buffers \in TargetLists, code \in GLErrors :
          Finish([check_gl_error(
                     Op("draw_buffer", 0, "", "", FALSE, code,
                        [i \in 1..Len(buffers) |-> Call("DrawBuffer", "", buffers[i], 0, 0)],
                        "return", <<>>, ""),
                     "draw_buffer", code) EXCEPT !.list = buffers])
    /\ UNCHANGED <<backend, twin, gl, is_webgl2, nloops>>

\* delete_buffer, delete_vertex_array, delete_framebuffer
\* (webgl_native.rs:113-118, 829-834, 873-878): gl::Delete*(1, &name.0), the
\* count 1 and the address of the caller's name, then check_gl_error
NativeDeleteOps == {<<"delete_buffer", "DeleteBuffers">>,
                    <<"delete_vertex_array", "DeleteVertexArrays">>,
                    <<"delete_framebuffer", "DeleteFramebuffers">>}

native_delete ==
    /\ Running("native")
    /\ \E o \in NativeDeleteOps, code \in GLErrors :
          Finish(check_gl_error(
                    Op(o[1], 0, "", "", FALSE, code,
                       <<Call(o[2], "", "address of name", 1, 0)>>, "return", <<>>, ""),
                    o[1], code))
    /\ UNCHANGED <<backend, twin, gl, is_webgl2, nloops>>

\* delete_texture (webgl_native.rs:640-646): gl::DeleteTextures(1, texture.0 as _)
\* hands the driver the texture name as the address of the name array.
\* Reading it is undefined behaviour: a fault, or some name read from that
\* address is deleted.
native_delete_texture ==
    /\ Running("native")
    /\ \E ub \in {"crash", "reads"}, code \in GLErrors :
          IF ub = "crash"
          THEN /\ code = "NO_ERROR"
               /\ Finish(Op("delete_texture", 0, "", "", FALSE, "",
                            <<Call("DeleteTextures", "", "name as address", 1, 0)>>,
                            "crash", <<>>, ""))
          ELSE Finish(check_gl_error(
                         Op("delete_texture", 0, "", "", FALSE, code,
                            <<Call("DeleteTextures", "", "name as address", 1, 0)>>,
                            "return", <<>>, ""),
                         "delete_texture", code))
    /\ UNCHANGED <<backend, twin, gl, is_webgl2, nloops>>

\* ------------------------------------------------------------ long sessions
\* the lengths of a caller's loop of create_buffer; delete_buffer
LoopLengths == {1, I32Max - 1, I32Max}

\* the ids a loop of n iterations starting at counter `from` issues
InLoop(k, from, n) ==
    /\ k >= from
    /\ (from > I32Max - n) \/ k < from + n

\* n iterations of { let b = create_buffer(); delete_buffer(&b); }
\* (webgl.rs:192-195, 321-326): the counter advances by n; an id that is in
\* the table when it is issued again is overwritten, then removed.
create_delete_loop ==
    /\ Running("browser")
    /\ nloops < MaxLoops
    /\ \E n \in LoopLengths : \E p \in Profiles(seq > I32Max - n) :
          LET overflows == seq > I32Max - n
              rec == [Op("create_buffer; delete_buffer", 0, "", "", FALSE, "", <<>>,
                         "return", <<>>, "") EXCEPT !.n = n]
          IN  /\ profile' = p
              /\ IF overflows /\ p = "debug"
                 THEN /\ last' = [rec EXCEPT !.outcome = "panic",
                                             !.msg = <<"attempt to add with overflow">>]
                      /\ status' = "halted"
                      /\ seq' = I32Max
                      /\ dict' = [k \in {j \in DOMAIN dict : j < seq \/ j = I32Max}
                                     |-> dict[k]]
                      /\ live' = {j \in live : j < seq \/ j = I32Max}
                 ELSE /\ last' = rec
                      /\ status' = "running"
                      /\ seq' = WrapAdd(seq, n)
                      /\ dict' = [k \in {j \in DOMAIN dict :
                                           ~(InLoop(j, seq, n) \/
                                             (overflows /\ j < WrapAdd(seq, n)))} |-> dict[k]]
                      /\ live' = {j \in live : ~(InLoop(j, seq, n) \/
                                                 (overflows /\ j < WrapAdd(seq, n)))}
    /\ nloops' = nloops + 1
    /\ UNCHANGED <<backend, twin, gl, is_webgl2, issued>>

\* ------------------------------------------------- square matrix uniforms
\* the grids a caller uploads: the identity and a grid whose every entry
\* tells its row and column
Identity(N) == [i \in 1..N |-> [j \in 1..N |-> IF i = j THEN 1 ELSE 0]]

Numbered(N) == [i \in 1..N |-> [j \in 1..N |-> 10 * i + j]]

Grids(N) == {Identity(N), Numbered(N)}

\* a grid read column after column
ColumnMajor(value) ==
    [k \in 1..(Len(value) * Len(value)) |->
        value[((k - 1) % Len(value)) + 1][((k - 1) \div Len(value)) + 1]]

\* the memory of a [[f32; N]; N]: an array holds its elements one after the
\* other, so the rows follow each other
RECURSIVE Memory(_)
Memory(value) ==
    IF value = <<>> THEN <<>> ELSE Head(value) \o Memory(Tail(value))

\* mem::transmute::<&[[f32; N]; N], &[f32; N * N]>(value) (webgl.rs:540, 553,
\* 606): the same memory read as N * N values
transmute(value) == SubSeq(Memory(value), 1, Len(value) * Len(value))

\* &value[0] as _ (webgl_native.rs:741, 749, 757): the address of the first
\* row, from which the driver reads count matrices of N * N values
FromFirstRow(value, count) == SubSeq(Memory(value), 1, count * Len(value) * Len(value))

\* operation, browser method, driver function, N
MatrixOps == {<<"uniform_matrix_2fv", "uniformMatrix2fv", "UniformMatrix2fv", 2>>,
              <<"uniform_matrix_3fv", "uniformMatrix3fv", "UniformMatrix3fv", 3>>,
              <<"uniform_matrix_4fv", "uniformMatrix4fv", "UniformMatrix4fv", 4>>}

\* uniform_matrix_2fv / 3fv / 4fv (webgl.rs:538-562, 604-615): the location
\* is resolved, then one call with transpose false and the array
uniform_matrix_fv(h) ==
    /\ Running("browser")
    /\ \E o \in MatrixOps : \E value \in Grids(o[4]) :
          LET array == transmute(value)
              d == Delegate(h, o[2], "uniform", TRUE)
          IN  Finish([Op(o[1], h, "", "", FALSE, "",
                         [i \in 1..Len(d.calls) |->
                             [d.calls[i] EXCEPT !.s = "false", !.list = array]],
                         d.outcome, <<>>, d.msg)
                      EXCEPT !.list = value])
    /\ UNCHANGED <<backend, twin, gl, is_webgl2, nloops>>

\* uniform_matrix_4fv / 3fv / 2fv (webgl_native.rs:738-760): one driver call
\* with count 1 and transpose false, then check_gl_error
native_uniform_matrix_fv ==
    /\ Running("native")
    /\ \E o \in MatrixOps, code \in GLErrors : \E value \in Grids(o[4]) :
          Finish([check_gl_error(
                     Op(o[1], 0, "", "", FALSE, code,
                        <<CallList(o[3], "", "false", 0, 1, FromFirstRow(value, 1))>>,
                        "return", <<>>, ""),
                     o[1], code)
                  EXCEPT !.list = value])
    /\ UNCHANGED <<backend, twin, gl, is_webgl2, nloops>>

\* ------------------------------------------------- sizes, counts, offsets
\* An unsigned value of up to 64 bits, top * 2^32 + hi * 2^31 + lo with lo
\* in 0..2^31-1: a u32 has top = 0; a usize has top = 0 on wasm32.
Word(top, hi, lo) == [top |-> top, hi |-> hi, lo |-> lo]

\* the u32 values a caller passes: 1, 2^31 - 1, 2^31
U32Values == {Word(0, 0, 1), Word(0, 0, I32Max), Word(0, 1, 0)}

\* the usize values a caller passes (usize is 64 bits on the native targets)
UsizeValues(b) == IF b = "browser" THEN U32Values ELSE U32Values \cup {Word(1, 0, 1)}

Values(type, b) == CASE type = "u32" -> U32Values
                     [] type = "usize" -> UsizeValues(b)
                     [] type = "none" -> {Word(0, 0, 0)}

\* an argument as the underlying API receives it: a signed 32-bit number, or
\* a pointer-sized unsigned value
I32Arg(n) == [kind |-> "i32", val |-> n, word |-> Word(0, 0, 0)]

PointerArg(w) == [kind |-> "pointer", val |-> 0, word |-> w]

\* `v as i32` (webgl.rs:244-245, 254, 375, 383-385): the low 32 bits of v read
\* as a two's complement number
as_i32(v) == I32Arg(IF v.hi = 0 THEN v.lo ELSE I32Min + v.lo)

\* `v as _` for a *const c_void parameter (webgl_native.rs:319, 417): the
\* u32 zero-extended to the width of a pointer
as_pointer(v) == PointerArg(Word(0, v.hi, v.lo))

\* operation, browser method, driver function, the type of its first and of
\* its second unsigned argument, and what the driver takes the second as
\* (webgl.rs:228-255, 374-387; webgl_native.rs:303-327, 407-428)
SizedOps ==
    {<<"viewport", "viewport", "Viewport", "u32", "u32", "i32">>,
     <<"draw_arrays", "drawArrays", "DrawArrays", "usize", "none", "i32">>,
     <<"draw_elements", "drawElements", "DrawElements", "usize", "u32", "pointer">>,
     <<"vertex_attrib_pointer", "vertexAttribPointer", "VertexAttribPointer",
       "u32", "u32", "pointer">>}

\* viewport, draw_arrays, draw_elements, vertex_attrib_pointer on the browser
sized_call ==
    /\ Running("browser")
    /\ \E o \in SizedOps : \E a \in Values(o[4], backend), b \in Values(o[5], backend) :
          Finish([Op(o[1], 0, "", "", FALSE, "",
                     <<CallList(o[2], "", "", 0, 0, <<as_i32(a), as_i32(b)>>)>>,
                     "return", <<>>, "")
                  EXCEPT !.list = <<a, b>>])
    /\ UNCHANGED <<backend, twin, gl, is_webgl2, nloops>>

\* the same operations on the native backend
native_sized_call ==
    /\ Running("native")
    /\ \E o \in SizedOps, code \in GLErrors :
       \E a \in Values(o[4], backend), b \in Values(o[5], backend) :
          Finish([check_gl_error(
                     Op(o[1], 0, "", "", FALSE, code,
                        <<CallList(o[3], "", "", 0, 0,
                                   <<as_i32(a),
                                     IF o[6] = "pointer" THEN as_pointer(b) ELSE as_i32(b)>>)>>,
                        "return", <<>>, ""),
                     o[1], code)
                  EXCEPT !.list = <<a, b>>])
    /\ UNCHANGED <<backend, twin, gl, is_webgl2, nloops>>

\* ------------------------------------------------------------------ clones
\* no clone made yet
NoTwin == [made |-> FALSE, dict |-> << >>, seq |-> 1, own |-> {}]

\* GLContext::clone (derive(Clone), webgl.rs:35-41): RefCell<HashMap<i32,
\* JsValue>> and RefCell<i32> are cloned by value, so the clone gets its own
\* table and counter, equal to the original's at that moment; the JsValues
\* and the WebContext refer to the same browser objects.  One clone is followed.
clone ==
    /\ Running("browser")
    /\ ~twin.made
    /\ twin' = [made |-> TRUE, dict |-> dict, seq |-> seq, own |-> {}]
    /\ last' = Op("clone", 0, "", "", FALSE, "", <<>>, "return", <<>>, "")
    /\ UNCHANGED <<backend, status, gl, is_webgl2, dict, seq, profile, issued, live, nloops>>

\* create_buffer / create_program (webgl.rs:192-195, 291-294) called on the
\* clone: fn add runs on the clone's table and counter
CloneCreateOps == {<<"create_buffer", "createBuffer", "buffer">>,
                   <<"create_program", "createProgram", "program">>}

clone_create ==
    /\ Running("browser")
    /\ twin.made
    /\ Cardinality(twin.own) < MaxCreate
    /\ twin.seq < I32Max
    /\ \E o \in CloneCreateOps, answer \in CreateAnswers :
          LET rec == Op(o[1], 0, "clone", "", FALSE, answer, <<Call(o[2], "", "", 0, 0)>>,
                        "return", <<>>, "")
          IN  IF answer = "null"
              THEN /\ last' = [rec EXCEPT !.outcome = "panic",
                                          !.msg = <<"called Option::unwrap() on a None value">>]
                   /\ status' = "halted"
                   /\ twin' = twin
              ELSE /\ last' = [rec EXCEPT !.ret = <<twin.seq>>]
                   /\ status' = "running"
                   /\ twin' = [twin EXCEPT !.dict = Insert(@, twin.seq, o[3]),
                                           !.seq = @ + 1,
                                           !.own = @ \cup {twin.seq}]
    /\ UNCHANGED <<backend, gl, is_webgl2, dict, seq, profile, issued, live, nloops>>

Init ==
    /\ backend \in {"browser", "native"}
    /\ status = "unbuilt"
    /\ gl = "none"
    /\ is_webgl2 = FALSE
    /\ dict = << >>
    /\ seq = 1
    /\ profile = "unknown"
    /\ last = NoOp
    /\ issued = << >>
    /\ live = {}
    /\ nloops = 0
    /\ twin = NoTwin

\* the build for wasm32 (lib.rs:10-12)
BrowserInit == Init /\ backend = "browser"

\* the build for every other target (lib.rs:14-16)
NativeInit == Init /\ backend = "native"

Next ==
    \/ new
    \/ native_new
    \/ create_buffer
    \/ create_program
    \/ create_framebuffer
    \/ create_shader
    \/ create_texture
    \/ create_vertex_array
    \/ \E h \in Handles : delete_buffer(h)
    \/ \E h \in Handles : delete_texture(h)
    \/ \E h \in Handles : delete_framebuffer(h)
    \/ \E h \in Handles : delete_vertex_array(h)
    \/ \E h \in Handles : get_uniform_location(h)
    \/ \E h \in Handles : get_attrib_location(h)
    \/ \E h \in Handles : bind_vertex_array(h)
    \/ \E h \in Handles : unbind_vertex_array(h)
    \/ draw_buffer
    \/ tex_parameteri
    \/ tex_parameterfv
    \/ \E h \in Handles : compile_shader(h)
    \/ \E h \in Handles : link_program(h)
    \/ \E h \in Handles : get_program_parameter(h)
    \/ tex_image2d
    \/ \E h \in Handles : use_handle(h)
    \/ \E p \in Handles, h \in Handles : attach_shader(p, h)
    \/ plain_call
    \/ unwrap_call
    \/ compressed_tex_image2d
    \/ native_call
    \/ native_text_call
    \/ native_get_attrib_location
    \/ native_get_uniform_location
    \/ native_compile_shader
    \/ native_link_program
    \/ native_tex_image2d
    \/ native_draw_buffer
    \/ native_delete_texture
    \/ native_delete
    \/ \E h \in Handles : uniform_matrix_fv(h)
    \/ native_uniform_matrix_fv
    \/ sized_call
    \/ native_sized_call

Spec == Init /\ [][Next]_vars

\* A long session: the table operations and the caller's long loops.
LongNext ==
    \/ new
    \/ create_buffer
    \/ create_program
    \/ create_framebuffer
    \/ create_shader
    \/ create_texture
    \/ create_vertex_array
    \/ \E h \in Handles : delete_buffer(h)
    \/ \E h \in Handles : delete_texture(h)
    \/ \E h \in Handles : delete_framebuffer(h)
    \/ \E h \in Handles : delete_vertex_array(h)
    \/ create_delete_loop

LongSpec == BrowserInit /\ [][LongNext]_vars

\* The browser's Resource Table and the operations gated on the revision.
TableNext ==
    \/ new
    \/ create_buffer
    \/ create_program
    \/ create_framebuffer
    \/ create_shader
    \/ create_texture
    \/ create_vertex_array
    \/ \E h \in Handles : delete_buffer(h)
    \/ \E h \in Handles : delete_texture(h)
    \/ \E h \in Handles : delete_framebuffer(h)
    \/ \E h \in Handles : delete_vertex_array(h)
    \/ \E h \in Handles : get_uniform_location(h)
    \/ \E h \in Handles : bind_vertex_array(h)
    \/ \E h \in Handles : unbind_vertex_array(h)
    \/ draw_buffer

TableSpec == BrowserInit /\ [][TableNext]_vars

\* Name lookups on both backends, with the programs they are asked of.
LookupNext ==
    \/ new
    \/ native_new
    \/ create_program
    \/ create_shader
    \/ \E h \in Handles : link_program(h)
    \/ \E h \in Handles : get_uniform_location(h)
    \/ \E h \in Handles : get_attrib_location(h)
    \/ native_link_program
    \/ native_get_attrib_location
    \/ native_get_uniform_location

LookupSpec == Init /\ [][LookupNext]_vars

\* The native backend alone.
NativeNext ==
    \/ native_new
    \/ native_call
    \/ native_text_call
    \/ native_get_attrib_location
    \/ native_get_uniform_location
    \/ native_compile_shader
    \/ native_link_program
    \/ native_tex_image2d
    \/ native_draw_buffer
    \/ native_delete_texture
    \/ native_delete
    \/ native_uniform_matrix_fv
    \/ native_sized_call

NativeSpec == NativeInit /\ [][NativeNext]_vars

\* Texture uploads on both backends.
UploadNext ==
    \/ new
    \/ native_new
    \/ tex_image2d
    \/ unwrap_call
    \/ compressed_tex_image2d
    \/ tex_parameteri
    \/ tex_parameterfv
    \/ native_tex_image2d
    \/ native_call

UploadSpec == Init /\ [][UploadNext]_vars

\* The matrix uniforms on both backends, with the locations they are set at.
MatrixNext ==
    \/ new
    \/ native_new
    \/ create_program
    \/ \E h \in Handles : get_uniform_location(h)
    \/ \E h \in Handles : uniform_matrix_fv(h)
    \/ native_uniform_matrix_fv

MatrixSpec == Init /\ [][MatrixNext]_vars

\* The browser context: every operation that is not a deletion, with the
\* creations that fill the table.
FrameNext ==
    \/ new
    \/ create_buffer
    \/ create_program
    \/ create_shader
    \/ \E h \in Handles : get_uniform_location(h)
    \/ \E h \in Handles : get_attrib_location(h)
    \/ \E h \in Handles : bind_vertex_array(h)
    \/ \E h \in Handles : unbind_vertex_array(h)
    \/ draw_buffer
    \/ tex_parameteri
    \/ tex_parameterfv
    \/ \E h \in Handles : compile_shader(h)
    \/ \E h \in Handles : link_program(h)
    \/ \E h \in Handles : get_program_parameter(h)
    \/ tex_image2d
    \/ \E h \in Handles : use_handle(h)
    \/ \E p \in Handles, h \in Handles : attach_shader(p, h)
    \/ plain_call
    \/ unwrap_call
    \/ compressed_tex_image2d
    \/ \E h \in Handles : uniform_matrix_fv(h)
    \/ sized_call

FrameSpec == BrowserInit /\ [][FrameNext]_vars

\* Uniform lookups in a long session, with the deletions.
LeakNext ==
    \/ new
    \/ create_program
    \/ \E h \in Handles : get_uniform_location(h)
    \/ \E h \in Handles : delete_buffer(h)
    \/ \E h \in Handles : delete_texture(h)
    \/ \E h \in Handles : delete_framebuffer(h)
    \/ \E h \in Handles : delete_vertex_array(h)
    \/ create_delete_loop

LeakSpec == BrowserInit /\ [][LeakNext]_vars

\* A context and its clone.
CloneNext ==
    \/ new
    \/ create_buffer
    \/ create_texture
    \/ \E h \in Handles : delete_buffer(h)
    \/ clone
    \/ clone_create

CloneSpec == BrowserInit /\ [][CloneNext]_vars

\* The operations gated on the revision, in sessions of any length.
GatingNext ==
    \/ new
    \/ create_vertex_array
    \/ \E h \in Handles : delete_vertex_array(h)
    \/ \E h \in Handles : bind_vertex_array(h)
    \/ draw_buffer
    \/ create_delete_loop

GatingSpec == BrowserInit /\ [][GatingNext]_vars

\* ==================================================================== claims
\* vocabulary of the claims
CreateOps == {"create_buffer", "create_shader", "create_program", "create_texture",
              "create_vertex_array", "create_framebuffer", "get_uniform_location"}

DeleteOps == {"delete_buffer", "delete_texture", "delete_framebuffer", "delete_vertex_array"}

CreatableKinds == {"buffer", "shader", "program", "texture", "vertex_array", "framebuffer"}

BuildOps == {"compile_shader", "link_program"}

LookupOps == {"get_attrib_location", "get_uniform_location"}

\* ------------------------------------------------------------------- C1
\* C1: on the browser backend the handles returned by the successful
\* creations of one context are pairwise distinct, whatever deletions are
\* interleaved; in particular a deleted handle is not issued again.
C1_HandlesPairwiseDistinct ==
    backend = "browser" =>
        \A i, j \in DOMAIN issued : i /= j => issued[i] /= issued[j]

\* ------------------------------------------------------------------- C2
\* C2: on the browser backend, in every state the caller can observe (the
\* context is running), the keys of the Resource Table are exactly the
\* handles returned by a creation and not yet passed to a delete operation,
\* one entry each; and when a delete operation has returned, the handle it
\* was given has no entry.
C2_TableHoldsLiveHandles ==
    Running("browser") =>
        /\ DOMAIN dict = live
        /\ (last.op \in DeleteOps /\ last.outcome = "return") => last.h \notin DOMAIN dict

\* a delete of one of two live handles has returned
C2_DeletedOneOfTwo ==
    /\ Running("browser")
    /\ last.op \in DeleteOps /\ last.outcome = "return"
    /\ last.h \in Range(issued)
    /\ Len(issued) = 2
    /\ Cardinality(DOMAIN dict) = 1

\* ------------------------------------------------------------------- C3
\* a delete operation of the context given handle h
DeleteOf(h) ==
    \/ delete_buffer(h)
    \/ delete_texture(h)
    \/ delete_framebuffer(h)
    \/ delete_vertex_array(h)

\* C3: for every kind of resource the context can create, the browser
\* backend offers a matching delete operation: whenever the table holds
\* an entry of that kind, some delete operation can take the handle, hand the
\* object to the underlying API, return, and leave no entry for the handle.
C3_EveryKindHasADelete ==
    Running("browser") =>
        \A h \in DOMAIN dict \cap Handles :
            dict[h] \in CreatableKinds =>
                ENABLED (/\ DeleteOf(h)
                         /\ last'.outcome = "return"
                         /\ last'.calls /= <<>>
                         /\ h \notin DOMAIN dict')

\* ------------------------------------------------------------------- C4
GatedOps == {"create_vertex_array", "bind_vertex_array", "delete_vertex_array", "draw_buffer"}

\* the step is one of the gated operations on the older revision; bind and
\* delete are given a handle that create_vertex_array returned and that is
\* still in the table
OlderGatedStep ==
    /\ Running("browser") /\ gl = "Gl"
    /\ last'.op \in GatedOps
    /\ last'.op \in {"bind_vertex_array", "delete_vertex_array"} =>
          (last'.h \in DOMAIN dict /\ dict[last'.h] = "number")

\* every entry but that of handle h is what it was
SameBut(h) == \A k \in (DOMAIN dict \cup DOMAIN dict') \ {h} :
                  k \in DOMAIN dict /\ k \in DOMAIN dict' /\ dict'[k] = dict[k]

\* C4 as the specification states it: on the older revision each of
\* create_vertex_array, bind_vertex_array, delete_vertex_array and draw_buffer
\* returns without error, calls nothing, and leaves table and counter as
\* they were.
C4_GatedOpsAreNoOps ==
    [][OlderGatedStep =>
          /\ last'.outcome = "return"
          /\ last'.calls = <<>>
          /\ UNCHANGED <<dict, seq>>]_vars

\* C4 as the code has it: on the older revision none of the four operations
\* calls the underlying API.  bind_vertex_array and draw_buffer return and
\* leave table and counter unchanged.  delete_vertex_array returns, removes
\* the entry of its handle and nothing else, and leaves the counter.
\* create_vertex_array returns the counter as a handle, stores a placeholder
\* entry under it and advances the counter by one (wrapping at the i32
\* maximum), except that under overflow checks it panics at the i32 maximum
\* and changes nothing.
C4_GatedOpsCallNothing ==
    [][OlderGatedStep =>
          /\ last'.calls = <<>>
          /\ CASE last'.op = "create_vertex_array" ->
                    IF seq = I32Max /\ profile' = "debug"
                    THEN last'.outcome = "panic" /\ UNCHANGED <<dict, seq>>
                    ELSE /\ last'.outcome = "return"
                         /\ last'.ret = <<seq>>
                         /\ seq' = (IF seq = I32Max THEN I32Min ELSE seq + 1)
                         /\ seq \in DOMAIN dict' /\ dict'[seq] = "number"
                         /\ SameBut(seq)
               [] last'.op = "delete_vertex_array" ->
                    /\ last'.outcome = "return"
                    /\ seq' = seq
                    /\ last'.h \notin DOMAIN dict'
                    /\ SameBut(last'.h)
               [] OTHER ->
                    /\ last'.outcome = "return"
                    /\ UNCHANGED <<dict, seq>>]_vars

\* on the older revision create_vertex_array has returned handle 1 and left
\* a placeholder entry and an advanced counter
C4_PlaceholderStored ==
    /\ Running("browser") /\ gl = "Gl"
    /\ last.op = "create_vertex_array" /\ last.ret = <<1>> /\ last.calls = <<>>
    /\ 1 \in DOMAIN dict /\ dict[1] = "number"
    /\ seq = 2

\* ------------------------------------------------------------------- C5
\* C5: on the browser backend tex_parameteri and tex_parameterfv make no
\* call to the underlying API for TextureWrapR on the older revision, and
\* exactly one call for every other parameter and for every parameter on the
\* newer revision.
C5_WrapRSkippedOnOlderRevision ==
    (Running("browser") /\ last.op \in {"tex_parameteri", "tex_parameterfv"}) =>
        Len(last.calls) = (IF ~is_webgl2 /\ last.arg = "TextureWrapR" THEN 0 ELSE 1)

\* ------------------------------------------------------------------- C6
\* the lookup recorded in rec was answered "not present" by the backend
AbsentAnswer(rec) ==
    /\ rec.op \in LookupOps
    /\ IF backend = "native" THEN rec.resp /= "" /\ rec.n = -1
       ELSE IF rec.op = "get_uniform_location" THEN rec.resp = "null"
       ELSE rec.resp = "answered" /\ rec.n = -1

\* C6: on both backends, when the backend answers a lookup of an attribute
\* or uniform location with "not present" (-1, null), the operation hands
\* out no location and no handle and leaves the Resource Table and the
\* counter unchanged; it returns None: always on the browser, and on the
\* native backend whenever the driver raised no error along with the -1.
C6_AbsentNameGivesNone ==
    [][AbsentAnswer(last') =>
          /\ last'.ret = <<>>
          /\ UNCHANGED <<dict, seq>>
          /\ (backend = "browser" \/ last'.resp = "NO_ERROR") =>
                (last'.outcome = "return" /\ status' = "running")]_vars

\* a browser lookup of a uniform on a live program was answered null and
\* returned None
C6_UniformAbsent ==
    /\ Running("browser")
    /\ last.op = "get_uniform_location" /\ last.resp = "null"
    /\ last.outcome = "return" /\ last.ret = <<>>
    /\ last.h \in DOMAIN dict /\ dict[last.h] = "program"

\* ------------------------------------------------------------------- C7
\* the operation recorded in rec is a native compile_shader / link_program
\* that read a failure status
NativeBuildFailed(rec) == backend = "native" /\ rec.op \in BuildOps /\ ~rec.flag

\* the message of the generic panic of the operation
GenericMessage(op) ==
    IF op = "compile_shader" THEN <<"Compile shader fail, reason unknown">>
    ELSE <<"Link program fail, reason unknown">>

\* nothing runs once the process has halted
HaltedIsAbsorbing == status /= "halted"

\* C7 as the specification states it: on the native backend a compile_shader
\* or link_program that reads a failure status halts inside the call with
\* the backend's diagnostic log text as the message, and nothing runs after
\* a halt.
C7_HaltsWithLogText ==
    [][/\ HaltedIsAbsorbing
       /\ NativeBuildFailed(last') =>
             /\ status' = "halted"
             /\ last'.outcome = "panic"
             /\ last'.msg = <<"info log">>]_vars

\* C7 as the code has it: on the native backend a compile_shader or
\* link_program that reads a failure status always halts inside the call, and
\* nothing runs after a halt.  The message is the diagnostic log text when
\* the reported log length is at least 1 and the log is valid UTF-8; it is
\* the fixed "... fail, reason unknown" text when the log is not valid UTF-8;
\* and for a reported length of 0 the call halts with an arithmetic-overflow
\* panic (overflow checks on) or by crashing or with the fixed text (overflow
\* checks off).
C7_HaltsInsideTheCall ==
    [][/\ HaltedIsAbsorbing
       /\ NativeBuildFailed(last') =>
             /\ status' = "halted"
             /\ last'.outcome \in {"panic", "crash"}
             /\ (last'.n >= 1 /\ last'.arg = "utf8") =>
                   (last'.outcome = "panic" /\ last'.msg = <<"info log">>)
             /\ (last'.n >= 1 /\ last'.arg = "not utf8") =>
                   (last'.outcome = "panic" /\ last'.msg = GenericMessage(last'.op))
             /\ last'.n = 0 =>
                   \/ last'.outcome = "crash"
                   \/ last'.msg = GenericMessage(last'.op)
                   \/ last'.msg = <<"attempt to subtract with overflow">>]_vars

\* a native compile_shader read a failure status with a readable log and
\* halted with its text
C7_HaltedWithLog ==
    /\ backend = "native" /\ status = "halted"
    /\ last.op = "compile_shader" /\ ~last.flag
    /\ last.n = 5 /\ last.arg = "utf8"
    /\ last.outcome = "panic" /\ last.msg = <<"info log">>

\* ------------------------------------------------------------------- C8
\* C8: on the browser backend a compile_shader or link_program that reads a
\* failure status fetches and logs the diagnostic text and then returns to
\* the caller in every case, leaving the context running.
C8_FailureReturnsNormally ==
    (backend = "browser" /\ last.op \in BuildOps /\ last.resp \in {"false", "null"}) =>
        /\ last.outcome = "return"
        /\ status = "running"
        /\ \E i \in DOMAIN last.calls : last.calls[i].s = "info log"

\* ------------------------------------------------------------------- C9
\* C9: when the browser surface has no webgl2 context to give (getContext
\* answers null) but has a webgl context, creation falls back to the older
\* revision and returns a usable context.
C9_FallsBackToOlderRevision ==
    (backend = "browser" /\ last.op = "new" /\ last.arg = "null"
        /\ last.arg2 = "context" /\ last.flag) =>
        /\ status = "running"
        /\ gl = "Gl"
        /\ ~is_webgl2

\* ------------------------------------------------------------------ C10
\* C10: the internal format tex_image2d passes is DEPTH_COMPONENT16 on the
\* browser backend for the DepthComponent format with an empty payload, and
\* the requested format in every other case and always on the native
\* backend; the format argument is always the requested format.
C10_InternalFormatPassed ==
    (status /= "unbuilt" /\ last.op = "tex_image2d") =>
        /\ Len(last.calls) >= 1
        /\ last.calls[1].y = PixelFormatCode(last.arg)
        /\ last.calls[1].x =
              (IF backend = "browser" /\ last.flag /\ last.arg = "DepthComponent"
               THEN DEPTH_COMPONENT16
               ELSE PixelFormatCode(last.arg))

\* the browser allocated a depth texture without pixels
C10_DepthWithoutPixels ==
    /\ Running("browser")
    /\ last.op = "tex_image2d" /\ last.arg = "DepthComponent" /\ last.flag
    /\ last.outcome = "return"
    /\ last.calls[1].x = DEPTH_COMPONENT16
    /\ last.calls[1].y = PixelFormatCode("DepthComponent")

\* ------------------------------------------------------------------ C11
\* the step is a browser operation given a handle that has no entry
StaleHandleStep ==
    /\ Running("browser")
    /\ \/ last'.h /= 0 /\ last'.h \notin DOMAIN dict
       \/ last'.op = "attach_shader" /\ last'.n \notin DOMAIN dict

\* C11: on the browser backend every operation given a handle without a
\* Resource Table entry is rejected: it halts, has made no call to the
\* underlying API and leaves the table as it was.
C11_StaleHandleRejected ==
    [][StaleHandleStep =>
          /\ last'.outcome /= "return"
          /\ last'.calls = <<>>
          /\ dict' = dict]_vars

\* ------------------------------------------------------------------ C12
\* the browser reported an error to the operation recorded in rec: a
\* creation call answered null, or the error register it read held a code
BrowserReportedError(rec) ==
    \/ rec.op \in CreateOps /\ rec.resp = "null"
    \/ \E i \in DOMAIN rec.calls :
          rec.calls[i].fn = "getError" /\ rec.calls[i].s /= "NO_ERROR"

\* C12: on the browser backend an error reported by the backend never
\* halts: the operation returns to the caller and the context keeps running.
C12_ReportedErrorNeverHalts ==
    (backend = "browser" /\ BrowserReportedError(last)) =>
        (last.outcome = "return" /\ status = "running")

\* ------------------------------------------------------------------ C13
\* C13: on the browser backend every operation whose underlying calls
\* returned has queried the error register, and has logged a diagnostic with
\* its name and the symbolic reason when the code was not NO_ERROR.
C13_ErrorQueriedAfterEveryCall ==
    (Running("browser") /\ last.op \notin {"", "new"} /\ last.calls /= <<>>
        /\ last.outcome = "return") =>
        \E i \in DOMAIN last.calls :
            /\ last.calls[i].fn = "getError"
            /\ last.calls[i].s /= "NO_ERROR" =>
                  \E j \in DOMAIN last.calls :
                      /\ j > i
                      /\ last.calls[j].fn = "console.log"
                      /\ Len(last.calls[j].list) = 3
                      /\ last.calls[j].list[3] = WebReason(last.calls[i].s)

\* ------------------------------------------------------------------ C14
\* the operation recorded in rec was halted by check_gl_error
HaltedByGLError(rec) == rec.outcome = "panic" /\ Len(rec.msg) = 4 /\ rec.msg[1] = "GLError:"

\* C14: on the native backend every operation that returns has read the
\* error register as its last driver call and found NO_ERROR, and every halt
\* on an error code carries the name of the operation that was running.
C14_ErrorTaggedWithOperation ==
    (backend = "native" /\ last.op \notin {"", "new"}) =>
        /\ last.outcome = "return" =>
              /\ last.calls /= <<>>
              /\ last.calls[Len(last.calls)].fn = "GetError"
              /\ last.calls[Len(last.calls)].s = "NO_ERROR"
        /\ HaltedByGLError(last) => last.msg[2] = last.op

\* ------------------------------------------------------------------ C15
\* the symbolic reasons the specification lists for the native diagnostic
ListedReason(code) ==
    CASE code = "INVALID_ENUM" -> "invalid enum"
      [] code = "INVALID_OPERATION" -> "invalid operation"
      [] code = "INVALID_VALUE" -> "invalid value"
      [] code = "OUT_OF_MEMORY" -> "out of memory"
      [] code = "STACK_OVERFLOW" -> "stack overflow"
      [] code = "STACK_UNDERFLOW" -> "stack underflow"
      [] code = "INVALID_FRAMEBUFFER_OPERATION" -> "invalid framebuffer operation"
      [] OTHER -> "unknown error"

\* C15: the native diagnostic names every error code by its listed reason,
\* INVALID_FRAMEBUFFER_OPERATION included, and says "unknown" only for a
\* code outside the list.
C15_EveryCodeHasItsReason ==
    (backend = "native" /\ HaltedByGLError(last)) =>
        last.msg[4] = ListedReason(last.msg[3])

\* ------------------------------------------------------------------ C16
\* the public operations of the browser's GLContext (webgl.rs:53-777)
BrowserSurface ==
    {o[1] : o \in PlainOps} \cup {o[1] : o \in HandleOps} \cup {o[1] : o \in UnwrapOps}
    \cup {o[1] : o \in SizedOps}
    \cup {"new", "create_buffer", "create_program", "create_framebuffer", "create_shader",
          "create_texture", "create_vertex_array", "delete_buffer", "delete_texture",
          "delete_framebuffer", "delete_vertex_array", "get_uniform_location",
          "get_attrib_location", "bind_vertex_array", "unbind_vertex_array", "draw_buffer",
          "tex_parameteri", "tex_parameterfv", "compile_shader", "link_program",
          "get_program_parameter", "tex_image2d", "attach_shader",
          "compressed_tex_image2d", "uniform_matrix_2fv", "uniform_matrix_3fv",
          "uniform_matrix_4fv"}

\* C16: every operation the native context can run is an operation of the
\* browser context too.
C16_NativeOperationsOnBrowser ==
    (backend = "native" /\ last.op /= "") => last.op \in BrowserSurface

\* ------------------------------------------------------------------ C17
\* the draw targets active after the calls of draw_buffer, from the targets
\* active before: drawBuffers(list) (webgl.rs:531) replaces the set by its
\* list, each gl::DrawBuffer(b) (webgl_native.rs:856) replaces it by b alone
RECURSIVE ActiveTargets(_, _)
ActiveTargets(prev, calls) ==
    IF calls = <<>> THEN prev
    ELSE LET c == Head(calls)
             now == CASE c.fn = "drawBuffers" -> {c.list[i] : i \in 1..Len(c.list)}
                      [] c.fn = "DrawBuffer" -> {c.s}
                      [] OTHER -> prev
         IN ActiveTargets(now, Tail(calls))

AdvancedTier == backend = "native" \/ (backend = "browser" /\ gl = "Gl2")

\* C17: on the advanced tier a returning draw_buffer leaves exactly its
\* targets active, whatever was active before.
C17_ExactlyTheTargetsActive ==
    (AdvancedTier /\ last.op = "draw_buffer" /\ last.outcome = "return") =>
        \A prev \in SUBSET ColorBuffers :
            ActiveTargets(prev, last.calls) = {last.list[i] : i \in 1..Len(last.list)}

\* ------------------------------------------------------------------ C18
MatrixSize(op) == CASE op = "uniform_matrix_2fv" -> 2
                    [] op = "uniform_matrix_3fv" -> 3
                    [] op = "uniform_matrix_4fv" -> 4

\* C18: on both backends the call a matrix setter makes carries N * N
\* values, the entry of row i and column j at index i * N + j (from 0), with
\* transpose false; the 4x4 identity goes out as its 16 values in order.
C18_GridUploadedRowMajor ==
    (last.op \in {o[1] : o \in MatrixOps} /\ last.calls /= <<>>) =>
        LET N == MatrixSize(last.op)
            c == last.calls[1]
        IN  /\ c.fn \in {o[2] : o \in MatrixOps} \cup {o[3] : o \in MatrixOps}
            /\ Len(last.list) = N
            /\ Len(c.list) = N * N
            /\ c.s = "false"
            /\ \A i, j \in 0..(N - 1) : c.list[i * N + j + 1] = last.list[i + 1][j + 1]
            /\ last.list = Identity(4) =>
                  c.list = <<1, 0, 0, 0, 0, 1, 0, 0, 0, 0, 1, 0, 0, 0, 0, 1>>

C18_NumberedGridUploaded ==
    /\ backend = "browser"
    /\ last.op = "uniform_matrix_3fv"
    /\ last.outcome = "return"
    /\ last.list = Numbered(3)
    /\ last.calls[1].list = <<11, 12, 13, 21, 22, 23, 31, 32, 33>>

\* ------------------------------------------------------------------ C19
\* C19: on the browser backend the handles come out in strictly increasing
\* order and the counter stays above every handle it has given out.
C19_HandlesStrictlyIncreasing ==
    backend = "browser" =>
        /\ \A i, j \in DOMAIN issued : i < j => issued[i] < issued[j]
        /\ \A i \in DOMAIN issued : issued[i] < seq

\* ------------------------------------------------------------------ C20
KindCreatedBy(op) == CASE op = "create_buffer" -> "buffer"
                       [] op = "create_shader" -> "shader"
                       [] op = "create_program" -> "program"
                       [] op = "create_texture" -> "texture"
                       [] op = "create_vertex_array" -> "vertex_array"
                       [] op = "create_framebuffer" -> "framebuffer"
                       [] op = "get_uniform_location" -> "uniform"

\* C20: on the browser backend every entry of the table holds a backend
\* object, and the entry a creation has just made holds an object of the
\* kind that creation makes.
C20_EntriesHoldCreatedObjects ==
    backend = "browser" =>
        /\ \A h \in DOMAIN dict : dict[h] \in CreatableKinds \cup {"uniform"}
        /\ (last.op \in CreateOps /\ last.outcome = "return" /\ last.ret /= <<>>) =>
              /\ last.ret[1] \in DOMAIN dict
              /\ dict[last.ret[1]] = KindCreatedBy(last.op)

\* ------------------------------------------------------------------ C21
\* a creation that has just returned handle h
CreatedAs(rec, h) == rec.op \in CreateOps /\ rec.outcome = "return" /\ rec.ret = <<h>>

\* C21: on the browser backend a handle that stays in the table across a
\* step resolves to the same object after it as before it: the step neither
\* stores another object under it nor hands it out again.
C21_LiveHandleKeepsItsObject ==
    [][backend = "browser" =>
          \A h \in DOMAIN dict :
              h \in DOMAIN dict' => (dict'[h] = dict[h] /\ ~CreatedAs(last', h))]_vars

\* ------------------------------------------------------------------ C22
\* the underlying delete of each delete operation
DeleteFn(op) == CASE op = "delete_buffer" -> "deleteBuffer"
                  [] op = "delete_texture" -> "deleteTexture"
                  [] op = "delete_framebuffer" -> "deleteFramebuffer"
                  [] op = "delete_vertex_array" -> "deleteVertexArray"

\* the step takes handle h out of the table
Removes(h) == h \in DOMAIN dict /\ h \notin DOMAIN dict'

\* C22 as the specification states it: an entry leaves the table only in a
\* delete operation given its handle, which has called the underlying delete
\* with the object the handle resolved to.
C22_NoRemovalWithoutDelete ==
    [][backend = "browser" =>
          \A h \in Handles :
              Removes(h) =>
                  /\ last'.op \in DeleteOps /\ last'.h = h
                  /\ last'.calls = <<Call(DeleteFn(last'.op), dict[h], "", h, 0)>>]_vars

\* C22 as the code has it: an entry leaves the table only in a delete
\* operation given its handle that returns.  The operation has called the
\* underlying delete with the object the handle resolved to, and nothing
\* else, except delete_vertex_array on the older revision, which calls
\* nothing.  A delete operation that does not return removes nothing.
C22_RemovalFollowsDelete ==
    [][backend = "browser" =>
          /\ \A h \in Handles :
                Removes(h) =>
                    /\ last'.op \in DeleteOps /\ last'.h = h /\ last'.outcome = "return"
                    /\ IF last'.op = "delete_vertex_array" /\ gl = "Gl"
                       THEN last'.calls = <<>>
                       ELSE last'.calls = <<Call(DeleteFn(last'.op), dict[h], "", h, 0)>>
          /\ (last'.op \in DeleteOps /\ last'.outcome /= "return") => dict' = dict]_vars

C22_DeletedAfterUnderlyingDelete ==
    /\ backend = "browser" /\ gl = "Gl2"
    /\ last.op = "delete_vertex_array" /\ last.outcome = "return"
    /\ last.h \in Range(issued) /\ last.h \notin DOMAIN dict
    /\ last.calls = <<Call("deleteVertexArray", "vertex_array", "", last.h, 0)>>

\* ------------------------------------------------------------------ C23
\* C23: once the browser context is built it holds one of the two variants,
\* is_webgl2 is true exactly when it is the newer one, and no step of a
\* built context (of either backend) changes the flag or the variant.
C23_FlagRecordsRevision ==
    /\ [](Running("browser") => (gl \in {"Gl", "Gl2"} /\ (is_webgl2 <=> gl = "Gl2")))
    /\ [][status /= "unbuilt" => UNCHANGED <<gl, is_webgl2>>]_vars

C23_OlderRevisionFlagRead ==
    /\ Running("browser") /\ gl = "Gl" /\ ~is_webgl2
    /\ last.op = "tex_parameteri" /\ last.arg = "TextureWrapR" /\ last.calls = <<>>

\* ------------------------------------------------------------------ C24
\* C24: on the native backend every delete operation makes one driver call
\* with count 1 and the address of a location holding the caller's name, and
\* the call does not fault.
C24_DeleteHandsNameByReference ==
    (backend = "native" /\ last.op \in DeleteOps) =>
        /\ last.outcome /= "crash"
        /\ last.calls[1].x = 1
        /\ last.calls[1].s = "address of name"

\* ------------------------------------------------------------------ C25
\* C25: a handle the clone has issued never resolves in the original as
\* well (there it would stand for another object, created by the original
\* after the clone was made), and a handle both instances hold resolves to
\* an object of the same kind in both.
C25_InstancesNeverDisagree ==
    (backend = "browser" /\ twin.made) =>
        /\ \A h \in twin.own : h \notin DOMAIN dict
        /\ \A h \in DOMAIN dict \cap DOMAIN twin.dict : twin.dict[h] = dict[h]

\* ------------------------------------------------------------------ C26
\* C26: on the browser backend a step of an operation that is neither a
\* creation nor a deletion, and a get_uniform_location that returns no
\* location, leaves the table and the counter as they were.
C26_OtherOperationsLeaveTable ==
    [][(backend = "browser" /\ status = "running" /\
        (last'.op \notin CreateOps \cup DeleteOps \/
         (last'.op = "get_uniform_location" /\ last'.ret = <<>>))) =>
            UNCHANGED <<dict, seq>>]_vars

C26_UsedWithFullTable ==
    /\ Running("browser")
    /\ last.op = "use_program" /\ last.outcome = "return"
    /\ Len(issued) = MaxCreate /\ DOMAIN dict = Range(issued) /\ seq = MaxCreate + 1

\* ------------------------------------------------------------------ C27
\* the handles under which table d holds a uniform location
Uniforms(d) == {h \in DOMAIN d : d[h] = "uniform"}

\* a get_uniform_location that has just returned a location
LookupSucceeded(rec) ==
    rec.op = "get_uniform_location" /\ rec.outcome = "return" /\ rec.ret /= <<>>

\* C27: on the browser backend a get_uniform_location that returns a
\* location returns a handle that was not in the table and adds exactly that
\* entry to the uniform locations held, and no step takes a uniform location
\* out of the table.
C27_EveryLookupAddsAnEntry ==
    [][(backend = "browser" /\ status = "running") =>
          /\ LookupSucceeded(last') =>
                /\ last'.ret[1] \notin DOMAIN dict
                /\ Uniforms(dict') = Uniforms(dict) \cup {last'.ret[1]}
                /\ Cardinality(DOMAIN dict') = Cardinality(DOMAIN dict) + 1
          /\ Uniforms(dict) \subseteq Uniforms(dict')]_vars

\* ------------------------------------------------------------------ C28
\* C28: on the native backend, for every info-log length reported with a
\* failure status, length - 1 is a buffer length (not below zero), and the
\* operation halts with a panic that carries a text of the failure branch:
\* not the arithmetic-overflow panic, and not a fault.
C28_LogLengthWellDefined ==
    NativeBuildFailed(last) =>
        /\ last.n - 1 >= 0
        /\ last.outcome = "panic"
        /\ last.msg \in {<<"info log">>, GenericMessage(last.op)}

\* ------------------------------------------------------------------ C29
\* the underlying API received `passed` with the numeric value of v
SameNumber(v, passed) ==
    IF passed.kind = "i32" THEN v.top = 0 /\ v.hi = 0 /\ passed.val = v.lo
    ELSE passed.word = v

\* C29: on both backends the unsigned arguments of viewport, draw_arrays,
\* draw_elements and vertex_attrib_pointer reach the underlying call with
\* the numeric value the caller passed.
C29_SizesReachBackendUnchanged ==
    last.op \in {o[1] : o \in SizedOps} =>
        \A i \in 1..2 : SameNumber(last.list[i], last.calls[1].list[i])

====
